---- MODULE Spec2Model ----
(***************************************************************************)
(* Discord webhook adapter for Alertmanager                               *)
(* (deploy/observability/alertmanager/discord-webhook-adapter.py).        *)
(*                                                                         *)
(* JSON objects are functions from key strings to values (a key that is   *)
(* absent is outside the DOMAIN); the labels object, whose iteration      *)
(* order the code depends on, is a sequence of <<key, value>> pairs in    *)
(* document order.  Text is TLA+ strings, so lengths, slices and          *)
(* concatenations are the real ones.  The emoji of the title prefixes and *)
(* of the summary line are written as :name: because the module is ASCII. *)
(***************************************************************************)
EXTENDS Integers, Sequences, FiniteSets, TLC

(* ------------------------------ bounds -------------------------------- *)

\* number of clients that may have a connection open at the same time
NumClients == 2
\* longest "alerts" array of a request under Spec
MaxAlerts == 1
\* longest "alerts" array of firing and resolved alerts under SpecBatch
MaxBatch == 11
\* longest "alerts" array with alerts of every kind under SpecBatch
MaxMixed == 5

(* ------------------------- program constants -------------------------- *)

\* firing[:10], resolved[:10 - len(embeds)]
EMBED_LIMIT == 10
\* description[:1024], labels_str[:1024]
FIELD_LIMIT == 1024

COLORS == [critical |-> 16711680, warning |-> 16753920,
           info |-> 65280, resolved |-> 65280]

(* ------------------------- Python primitives -------------------------- *)

Min(a, b) == IF a <= b THEN a ELSE b

\* dict.get(key, default)
Get(d, key, default) == IF key \in DOMAIN d THEN d[key] ELSE default

\* labels.get(key, default) on the ordered labels object
LabelGet(labels, key, default) ==
  LET found == SelectSeq(labels, LAMBDA kv: kv[1] = key)
  IN IF found = <<>> THEN default ELSE found[1][2]

\* s[:n], for a string or a list
Slice(s, n) == IF n >= 0 THEN SubSeq(s, 1, Min(n, Len(s)))
               ELSE SubSeq(s, 1, Len(s) + n)

\* sep.join(parts)
Join(sep, parts) ==
  LET joined[i \in 1..Len(parts)] ==
        IF i = 1 THEN parts[1] ELSE joined[i - 1] \o sep \o parts[i]
  IN IF parts = <<>> THEN "" ELSE joined[Len(parts)]

\* str.upper() on the severities the inputs use; a string of digits is its
\* own upper case
Upper(s) == CASE s = "critical" -> "CRITICAL"
              [] s = "warning"  -> "WARNING"
              [] s = "info"     -> "INFO"
              [] s = "page"     -> "PAGE"
              [] OTHER          -> s

(* ---------------------- format_alert_for_discord ---------------------- *)

\* mutant: the severity is looked at before the status
ColorAndPrefixSeverityFirst(status, severity) ==
  IF severity = "critical"
    THEN [color |-> COLORS.critical, title_prefix |-> ":fire: CRITICAL"]
  ELSE IF severity = "warning"
    THEN [color |-> COLORS.warning, title_prefix |-> ":warning: WARNING"]
  ELSE IF status = "resolved"
    THEN [color |-> COLORS.resolved, title_prefix |-> ":white_check_mark: RESOLVED"]
  ELSE [color |-> COLORS.info, title_prefix |-> ":information_source: INFO"]

\* the if/elif chain choosing color and title_prefix
ColorAndPrefix(status, severity) ==
  IF status = "resolved"
    THEN [color |-> COLORS.resolved, title_prefix |-> ":white_check_mark: RESOLVED"]
  ELSE IF severity = "critical"
    THEN [color |-> COLORS.critical, title_prefix |-> ":fire: CRITICAL"]
  ELSE IF severity = "warning"
    THEN [color |-> COLORS.warning, title_prefix |-> ":warning: WARNING"]
  ELSE [color |-> COLORS.info, title_prefix |-> ":information_source: INFO"]

\* mutant: an empty summary falls back to the generated text
DescriptionOrDefault(annotations, alert_name, status) ==
  IF Get(annotations, "summary", "") # ""
    THEN annotations.summary
    ELSE "Alert " \o alert_name \o " is " \o status

\* embed["description"]
Description(annotations, alert_name, status) ==
  Get(annotations, "summary", "Alert " \o alert_name \o " is " \o status)

Field(name, value, inline) == [name |-> name, value |-> value, inline |-> inline]

\* {k: v for k, v in labels.items() if k not in [...]}
OtherLabels(labels) ==
  SelectSeq(labels, LAMBDA kv:
    kv[1] \notin {"alertname", "severity", "monitor", "component"})

\* [f"{k}={v}" for k, v in other_labels.items()]
LabelPairs(other) ==
  [i \in 1..Len(other) |-> other[i][1] \o "=" \o other[i][2]]

\* the value of the "Details" field
DetailsValue(description) == Slice(description, FIELD_LIMIT)

\* the value of the "Labels" field
LabelsValue(labels_str) == Slice(labels_str, FIELD_LIMIT)

\* the value of the "Dashboard" field
DashboardValue(dashboard) == "[View Dashboard](" \o dashboard \o ")"

format_alert_for_discord(alert, utcnow) ==
  LET status      == Get(alert, "status", "firing")
      labels      == Get(alert, "labels", <<>>)
      annotations == Get(alert, "annotations", <<>>)
      severity    == LabelGet(labels, "severity", "info")
      monitor     == LabelGet(labels, "monitor", "unknown")
      alert_name  == LabelGet(labels, "alertname", "Alert")
      component   == LabelGet(labels, "component", "system")
      look        == ColorAndPrefix(status, severity)
      \* annotations.get(...) is None when absent; None and "" are both falsy
      description == Get(annotations, "description", "")
      dashboard   == Get(annotations, "dashboard", "")
      other       == OtherLabels(labels)
      fields ==
        (IF monitor # "unknown" THEN <<Field("Monitor", monitor, TRUE)>> ELSE <<>>)
        \o (IF component # "" THEN <<Field("Component", component, TRUE)>> ELSE <<>>)
        \o <<Field("Severity", Upper(severity), TRUE)>>
        \o (IF description # ""
              THEN <<Field("Details", DetailsValue(description), FALSE)>> ELSE <<>>)
        \o (IF dashboard # ""
              THEN <<Field("Dashboard", DashboardValue(dashboard), FALSE)>> ELSE <<>>)
        \o (IF other # <<>>
              THEN <<Field("Labels", LabelsValue(Join(", ", LabelPairs(other))), FALSE)>>
              ELSE <<>>)
  IN [title       |-> look.title_prefix \o ": " \o alert_name,
      description |-> Description(annotations, alert_name, status),
      color       |-> look.color,
      fields      |-> fields,
      timestamp   |-> Get(alert, "startsAt", utcnow)]

(* --------------------------- send_to_discord -------------------------- *)

\* mutant: a missing status counts as firing, as in the translator
StatusOrFiring(a) == Get(a, "status", "firing")

\* a.get('status'): None when the key is absent
StatusOf(a) == Get(a, "status", "None")

\* firing = [a for a in alerts if a.get('status') == 'firing']
Firing(alerts) == SelectSeq(alerts, LAMBDA a: StatusOf(a.obj) = "firing")

\* resolved = [a for a in alerts if a.get('status') == 'resolved']
Resolved(alerts) == SelectSeq(alerts, LAMBDA a: StatusOf(a.obj) = "resolved")

\* firing[:10]
FiringTaken(firing) == Slice(firing, EMBED_LIMIT)

\* mutant: the cards already taken are not subtracted
ResolvedTakenUncapped(resolved, embeds) == Slice(resolved, EMBED_LIMIT)

\* resolved[:10 - len(embeds)]
ResolvedTaken(resolved, embeds) == Slice(resolved, EMBED_LIMIT - Len(embeds))

\* for alert in ...: embeds.append(format_alert_for_discord(alert))
FormatEach(alerts, utcnow) ==
  [i \in 1..Len(alerts) |-> format_alert_for_discord(alerts[i].obj, utcnow)]

Embeds(alerts, utcnow) ==
  LET first == FormatEach(FiringTaken(Firing(alerts)), utcnow)
  IN first \o FormatEach(ResolvedTaken(Resolved(alerts), first), utcnow)

\* mutant: an empty batch is posted like any other
EmptyBatchPosted(embeds) == FALSE

\* if not embeds: return True
EmptyBatch(embeds) == embeds = <<>>

\* mutant: only the firing alerts that became cards are counted
FiringCountTaken(firing) == Len(Slice(firing, EMBED_LIMIT))

\* firing_count = len(firing)
FiringCount(firing) == Len(firing)

\* resolved_count = len(resolved)
ResolvedCount(resolved) == Len(resolved)

SummaryParts(firing_count, resolved_count) ==
  (IF firing_count # 0
     THEN <<":fire: " \o ToString(firing_count) \o " alert"
            \o (IF firing_count # 1 THEN "s" ELSE "") \o " firing">>
     ELSE <<>>)
  \o (IF resolved_count # 0
        THEN <<":white_check_mark: " \o ToString(resolved_count) \o " resolved">>
        ELSE <<>>)

Payload(embeds, firing_count, resolved_count) ==
  LET summary_parts == SummaryParts(firing_count, resolved_count)
  IN [username |-> "Hall Monitor Alerts",
      avatar_url |-> "https://raw.githubusercontent.com/prometheus/prometheus/main/documentation/images/prometheus-logo.svg",
      embeds |-> embeds]
     @@ (IF summary_parts # <<>>
           THEN "content" :> Join(" | ", summary_parts) ELSE <<>>)

\* send_to_discord up to the call of requests.post: it has returned a
\* value, raised, or is about to post the payload
send_to_discord(webhook_url, alerts, utcnow) ==
  IF webhook_url = ""
    THEN [at |-> "return", value |-> FALSE, payload |-> <<>>]
  ELSE IF \E i \in 1..Len(alerts) : alerts[i].type # "object"
    THEN [at |-> "raise", value |-> FALSE, payload |-> <<>>]
  ELSE LET embeds == Embeds(alerts, utcnow)
       IN IF EmptyBatch(embeds)
            THEN [at |-> "return", value |-> TRUE, payload |-> <<>>]
            ELSE [at |-> "post", value |-> FALSE,
                  payload |-> Payload(embeds, FiringCount(Firing(alerts)),
                                      ResolvedCount(Resolved(alerts)))]

\* response.raise_for_status(): HTTPError for a 4xx or 5xx status
RaisesForStatus(status_code) == 400 <= status_code /\ status_code < 600

\* what requests.post(..., timeout=10) can end in
PostOutcomes ==
  [kind : {"response"}, status_code : {200, 204, 304, 404, 429, 500}]
  \cup [kind : {"Timeout", "ConnectionError"}, status_code : {0}]

\* the try/except around requests.post: the value send_to_discord returns
Delivered(outcome) ==
  IF outcome.kind # "response" THEN FALSE
  ELSE IF RaisesForStatus(outcome.status_code) THEN FALSE
  ELSE TRUE

(* ------------------------------ requests ------------------------------ *)

Clients == 1..NumClients

NoRequest  == [method |-> "none", content_length |-> "none", body |-> [json |-> "none"]]
NoResponse == [code |-> 0, body |-> <<>>]
NoOutcome  == [kind |-> "none", status_code |-> 0]
Idle       == [phase |-> "idle", request |-> NoRequest, response |-> NoResponse,
               success |-> "not called", post_outcome |-> NoOutcome]

GetRequest == [method |-> "GET", content_length |-> "absent", body |-> [json |-> "none"]]
Post(content_length, body) ==
  [method |-> "POST", content_length |-> content_length, body |-> body]

InvalidJson   == [json |-> "invalid"]
TopLevelArray == [json |-> "array"]
ObjectBody(data) == [json |-> "object", obj |-> data]
AlertsBody(items) == ObjectBody([alerts |-> [type |-> "array", items |-> items]])
NullAlerts == ObjectBody([alerts |-> [type |-> "null", items |-> <<>>]])
NoAlertsKey == ObjectBody(<<>>)

\* an alert object with the given status ("absent": no status key), stamped
\* with its position so that every alert of a request is distinct
Alert(status, i) ==
  [type |-> "object",
   obj  |-> (IF status = "absent" THEN <<>> ELSE "status" :> status)
            @@ ("startsAt" :> ("T" \o ToString(i)))]
NotAnObject == [type |-> "string", obj |-> <<>>]

AlertsOf(statuses) ==
  [i \in 1..Len(statuses) |->
     IF statuses[i] = "string" THEN NotAnObject ELSE Alert(statuses[i], i)]

UtcNow == {"2026-01-01T00:00:00", "2026-01-01T00:00:01"}

(* ------------------------------- state -------------------------------- *)

VARIABLES
  DISCORD_WEBHOOK_URL,  \* os.environ.get('DISCORD_WEBHOOK_URL', ''), read once
  server,               \* "boot", "serving" (in serve_forever) or "exited"
  conn,                 \* per client: its connection, request, response,
                        \* what send_to_discord returned for it and how
                        \* its requests.post ended
  outbound,             \* per client: the payload of the requests.post its
                        \* handler is blocked in, <<>> if none
  posts,                \* per client: calls of requests.post made for its
                        \* current request
  alert,                \* the argument of a direct call of
                        \* format_alert_for_discord
  embed                 \* what that call returned, <<>> before it

vars == <<DISCORD_WEBHOOK_URL, server, conn, outbound, posts, alert, embed>>

Init ==
  /\ DISCORD_WEBHOOK_URL \in {"", "https://discord.com/api/webhooks/1/x"}
  /\ server = "boot"
  /\ conn = [c \in Clients |-> Idle]
  /\ outbound = [c \in Clients |-> <<>>]
  /\ posts = [c \in Clients |-> 0]
  /\ alert = <<>>
  /\ embed = <<>>

(* ------------------------------- server ------------------------------- *)

\* main(): exits when the URL is not set, else binds and serves
main ==
  /\ server = "boot"
  /\ server' = IF DISCORD_WEBHOOK_URL = "" THEN "exited" ELSE "serving"
  /\ UNCHANGED <<DISCORD_WEBHOOK_URL, conn, outbound, posts, alert, embed>>

\* a client connects and sends its request; it waits in the listen queue
Connect(c, request) ==
  /\ server = "serving"
  /\ conn[c].phase = "idle"
  /\ conn' = [conn EXCEPT ![c] = [Idle EXCEPT !.phase = "queued", !.request = request]]
  /\ posts' = [posts EXCEPT ![c] = 0]
  /\ UNCHANGED <<DISCORD_WEBHOOK_URL, server, outbound, alert, embed>>

\* mutant: every connection gets a thread of its own
ServerFreeThreaded == TRUE

\* HTTPServer.serve_forever handles one request at a time: the next
\* connection is taken only when no handler is running
ServerFree == \A c \in Clients : conn[c].phase # "handling"

Respond(code, body) == [code |-> code, body |-> body]

\* json.loads(self.rfile.read(content_length)); no Content-Length reads b''
Parse(request) ==
  IF request.content_length = "absent" THEN [ok |-> FALSE, data |-> <<>>]
  ELSE IF request.body.json = "invalid" THEN [ok |-> FALSE, data |-> <<>>]
  ELSE [ok |-> TRUE, data |-> request.body]

\* do_POST up to the point where it has answered, has died, or is blocked
\* in requests.post
HandlePost(request, webhook_url, utcnow) ==
  \* int(self.headers.get('Content-Length', 0)) is outside the try block
  IF request.content_length = "abc"
    THEN [phase |-> "closed", response |-> NoResponse,
          success |-> "not called", payload |-> <<>>]
  ELSE LET parsed == Parse(request)
           error(e) == [phase |-> "answered",
                        response |-> Respond(500, [status |-> "error", message |-> e]),
                        success |-> "not called", payload |-> <<>>]
       IN
    IF ~parsed.ok THEN error("JSONDecodeError")
    ELSE IF parsed.data.json # "object" THEN error("AttributeError")
    ELSE LET alerts == Get(parsed.data.obj, "alerts", [type |-> "array", items |-> <<>>])
         IN
      IF alerts.type # "array" THEN error("TypeError")
      ELSE LET sent == send_to_discord(webhook_url, alerts.items, utcnow)
           IN
        CASE sent.at = "raise" ->
               [error("AttributeError") EXCEPT !.success = "raised"]
          [] sent.at = "return" /\ sent.value ->
               [phase |-> "answered", response |-> Respond(200, [status |-> "ok"]),
                success |-> "True", payload |-> <<>>]
          [] sent.at = "return" /\ ~sent.value ->
               [phase |-> "answered", response |-> Respond(500, [status |-> "error"]),
                success |-> "False", payload |-> <<>>]
          [] sent.at = "post" ->
               [phase |-> "handling", response |-> NoResponse,
                success |-> "pending", payload |-> sent.payload]

do_POST(c) ==
  /\ server = "serving"
  /\ conn[c].phase = "queued"
  /\ conn[c].request.method = "POST"
  /\ ServerFree
  /\ \E utcnow \in UtcNow :
       LET h == HandlePost(conn[c].request, DISCORD_WEBHOOK_URL, utcnow)
       IN /\ conn' = [conn EXCEPT ![c].phase = h.phase, ![c].response = h.response,
                                  ![c].success = h.success]
          /\ outbound' = [outbound EXCEPT ![c] = h.payload]
          /\ posts' = [posts EXCEPT ![c] = IF h.phase = "handling" THEN @ + 1 ELSE @]
  /\ UNCHANGED <<DISCORD_WEBHOOK_URL, server, alert, embed>>

\* requests.post returns or raises; send_to_discord returns and do_POST
\* answers 200 or 500
PostReturns(c, outcome) ==
  /\ conn[c].phase = "handling"
  /\ LET success == Delivered(outcome)
     IN conn' = [conn EXCEPT
                   ![c].phase = "answered",
                   ![c].post_outcome = outcome,
                   ![c].success = IF success THEN "True" ELSE "False",
                   ![c].response = IF success THEN Respond(200, [status |-> "ok"])
                                   ELSE Respond(500, [status |-> "error"])]
  /\ outbound' = [outbound EXCEPT ![c] = <<>>]
  /\ UNCHANGED <<DISCORD_WEBHOOK_URL, server, posts, alert, embed>>

do_GET(c) ==
  /\ server = "serving"
  /\ conn[c].phase = "queued"
  /\ conn[c].request.method = "GET"
  /\ ServerFree
  /\ conn' = [conn EXCEPT
                ![c].phase = "answered",
                ![c].response = Respond(200, [status |-> "healthy",
                                    service |-> "Discord Webhook Adapter",
                                    webhook_configured |-> DISCORD_WEBHOOK_URL # ""])]
  /\ UNCHANGED <<DISCORD_WEBHOOK_URL, server, outbound, posts, alert, embed>>

\* the connection is closed after the response (or after the handler died)
Close(c) ==
  /\ conn[c].phase \in {"answered", "closed"}
  /\ conn' = [conn EXCEPT ![c] = Idle]
  /\ posts' = [posts EXCEPT ![c] = 0]
  /\ UNCHANGED <<DISCORD_WEBHOOK_URL, server, outbound, alert, embed>>

(* ----------------------- the requests of each run --------------------- *)

\* Spec: a few clients, every kind of request, short alert lists
SpecStatuses == {"firing", "suppressed", "string"}

SendRequest(c) ==
  /\ conn[c].phase = "idle"
  /\ \/ Connect(c, GetRequest)
     \/ \E cl \in {"absent", "abc"} : Connect(c, Post(cl, AlertsBody(<<>>)))
     \/ \E body \in {InvalidJson, TopLevelArray} : Connect(c, Post("exact", body))
     \/ \E body \in {NullAlerts, NoAlertsKey} : Connect(c, Post("exact", body))
     \/ \E n \in 0..MaxAlerts : \E statuses \in [1..n -> SpecStatuses] :
          Connect(c, Post("exact", AlertsBody(AlertsOf(statuses))))

Next ==
  \/ main
  \/ \E c \in Clients : SendRequest(c)
  \/ \E c \in Clients : do_POST(c)
  \/ \E c \in Clients : do_GET(c)
  \/ \E c \in Clients : \E outcome \in PostOutcomes : PostReturns(c, outcome)
  \/ \E c \in Clients : Close(c)

Spec == Init /\ [][Next]_vars

\* SpecBatch: one client, every kind of request, alert lists long enough to
\* overflow the embed limit
BatchStatuses == {"firing", "resolved"}
MixedStatuses == {"firing", "resolved", "absent", "suppressed", "string"}

SendBatch(c) ==
  /\ conn[c].phase = "idle"
  /\ \/ Connect(c, GetRequest)
     \/ \E cl \in {"absent", "abc"} : Connect(c, Post(cl, AlertsBody(<<>>)))
     \/ \E body \in {InvalidJson, TopLevelArray} : Connect(c, Post("exact", body))
     \/ \E body \in {NullAlerts, NoAlertsKey} : Connect(c, Post("exact", body))
     \/ \E n \in 0..MaxMixed : \E statuses \in [1..n -> MixedStatuses] :
          Connect(c, Post("exact", AlertsBody(AlertsOf(statuses))))
     \/ \E n \in 0..MaxBatch : \E statuses \in [1..n -> BatchStatuses] :
          Connect(c, Post("exact", AlertsBody(AlertsOf(statuses))))

NextBatch ==
  \/ main
  \/ SendBatch(1)
  \/ do_POST(1)
  \/ do_GET(1)
  \/ \E outcome \in PostOutcomes : PostReturns(1, outcome)
  \/ Close(1)

SpecBatch == Init /\ [][NextBatch]_vars

(* ------------- direct calls of format_alert_for_discord --------------- *)

Zeros(n) ==
  LET z[k \in 0..n] ==
        IF k = 0 THEN ""
        ELSE IF k % 2 = 0 THEN z[k \div 2] \o z[k \div 2] ELSE "0" \o z[k - 1]
  IN z[n]

\* text of FIELD_LIMIT and of FIELD_LIMIT + 1 characters
AtLimit   == Zeros(FIELD_LIMIT)
OverLimit == Zeros(FIELD_LIMIT + 1)

Label(key, value) == IF value = "absent" THEN <<>> ELSE << <<key, value>> >>
Annotation(key, value) == IF value = "absent" THEN <<>> ELSE key :> value
Key(key, present, value) == IF present THEN key :> value ELSE <<>>

ExtraLabels ==
  << <<>>,
     << <<"team", "core">> >>,
     << <<"team", "core">>, <<"env", "prod">> >>,
     << <<"note", OverLimit>>, <<"env", "prod">> >> >>

\* the labels object, in document order; "absent" leaves the key out
LabelsObject(alertname, severity, monitor, component, extra) ==
  Label("alertname", alertname) \o Label("severity", severity)
  \o Label("monitor", monitor) \o Label("component", component)
  \o ExtraLabels[extra]

\* the annotations object; "absent" leaves the key out
AnnotationsObject(summary, description, dashboard) ==
  Annotation("summary", summary) @@ Annotation("description", description)
  @@ Annotation("dashboard", dashboard)

\* an alert object; the labels and annotations objects are left out when
\* they would be empty
AlertObject(status, labels, annotations, startsAt) ==
  Key("status", status # "absent", status)
  @@ Key("labels", labels # <<>>, labels)
  @@ Key("annotations", DOMAIN annotations # {}, annotations)
  @@ Key("startsAt", startsAt # "absent", startsAt)

Statuses     == {"absent", "firing", "resolved", "suppressed"}
Severities   == {"absent", "critical", "warning", "info", "page"}
AlertNames   == {"absent", "DiskFull"}
Summaries    == {"absent", "", "Disk at 95%"}
Monitors     == {"absent", "unknown", "web-01", OverLimit}
Components   == {"absent", "", "api", OverLimit}
Descriptions == {"absent", "", "disk /var is filling up", AtLimit, OverLimit}
Dashboards   == {"absent", "", "https://grafana/d/disk", AtLimit}
StartsAts    == {"absent", "2026-01-01T00:00:00Z"}

InitTranslate ==
  /\ DISCORD_WEBHOOK_URL = "https://discord.com/api/webhooks/1/x"
  /\ server = "boot"
  /\ conn = [c \in Clients |-> Idle]
  /\ outbound = [c \in Clients |-> <<>>]
  /\ posts = [c \in Clients |-> 0]
  /\ embed = <<>>
  /\ \/ \E status \in Statuses, severity \in Severities, alertname \in AlertNames,
          summary \in Summaries, startsAt \in StartsAts :
          alert = AlertObject(status,
                    LabelsObject(alertname, severity, "absent", "absent", 1),
                    AnnotationsObject(summary, "absent", "absent"), startsAt)
     \/ \E status \in {"firing", "resolved"}, severity \in {"absent", "critical"},
          monitor \in Monitors, component \in Components,
          extra \in 1..Len(ExtraLabels), description \in Descriptions,
          dashboard \in Dashboards :
          alert = AlertObject(status,
                    LabelsObject("DiskFull", severity, monitor, component, extra),
                    AnnotationsObject("absent", description, dashboard),
                    "2026-01-01T00:00:00Z")

Translate ==
  /\ embed = <<>>
  /\ \E utcnow \in UtcNow : embed' = format_alert_for_discord(alert, utcnow)
  /\ UNCHANGED <<DISCORD_WEBHOOK_URL, server, conn, outbound, posts, alert>>

NextTranslate == Translate

SpecTranslate == InitTranslate /\ [][NextTranslate]_vars

(* ---------------- claims on format_alert_for_discord ------------------ *)

\* what the translator reads from its argument
InStatus      == Get(alert, "status", "firing")
InLabels      == Get(alert, "labels", <<>>)
InAnnotations == Get(alert, "annotations", <<>>)
InSeverity    == LabelGet(InLabels, "severity", "info")
InAlertName   == LabelGet(InLabels, "alertname", "Alert")
Translated    == embed # <<>>

TitlePrefix(title) == SubSeq(title, 1, Len(title) - Len(": " \o InAlertName))

\* the text a field is made from: "" when the field has no source
SourceOf(name) ==
  CASE name = "Monitor"   -> LabelGet(InLabels, "monitor", "")
    [] name = "Component" -> LabelGet(InLabels, "component", "system")
    [] name = "Severity"  -> InSeverity
    [] name = "Details"   -> Get(InAnnotations, "description", "")
    [] name = "Dashboard" -> Get(InAnnotations, "dashboard", "")
    [] name = "Labels"    -> Join(", ", LabelPairs(OtherLabels(InLabels)))

FieldNamed(name) == SelectSeq(embed.fields, LAMBDA f: f.name = name)

\* C6: every field value of a card is at most 1024 characters long, and a
\* source value longer than 1024 characters yields a field of exactly 1024
\* characters, for Monitor, Component, Severity, Details, Dashboard and
\* Labels alike.
C6_FieldsWithinLimit ==
  Translated =>
    /\ \A i \in 1..Len(embed.fields) : Len(embed.fields[i].value) <= FIELD_LIMIT
    /\ \A name \in {"Monitor", "Component", "Severity", "Details", "Dashboard", "Labels"} :
         Len(SourceOf(name)) > FIELD_LIMIT =>
           /\ Len(FieldNamed(name)) = 1
           /\ Len(FieldNamed(name)[1].value) = FIELD_LIMIT

\* C7: the color and the title prefix follow the priority chain resolved
\* status, then critical severity, then warning severity, then info; the
\* status wins over the severity.
C7_StatusBeforeSeverity ==
  Translated =>
    /\ embed.title = TitlePrefix(embed.title) \o ": " \o InAlertName
    /\ InStatus = "resolved" =>
         /\ embed.color = 65280
         /\ TitlePrefix(embed.title) = ":white_check_mark: RESOLVED"
    /\ InStatus # "resolved" /\ InSeverity = "critical" =>
         /\ embed.color = 16711680
         /\ TitlePrefix(embed.title) = ":fire: CRITICAL"
    /\ InStatus # "resolved" /\ InSeverity = "warning" =>
         /\ embed.color = 16753920
         /\ TitlePrefix(embed.title) = ":warning: WARNING"
    /\ InStatus # "resolved" /\ InSeverity \notin {"critical", "warning"} =>
         /\ embed.color = 65280
         /\ TitlePrefix(embed.title) = ":information_source: INFO"

\* a resolved alert whose severity is critical has been translated
C7_Witness ==
  /\ Translated
  /\ InStatus = "resolved"
  /\ InSeverity = "critical"
  /\ embed.color = 65280

GeneratedDescription == "Alert " \o InAlertName \o " is " \o InStatus

\* C8 as stated: the description is annotations.summary when that is
\* present and non-empty, and the generated "Alert <alertname> is <status>"
\* when it is absent or the empty string.
C8_SummaryOrDefault ==
  Translated =>
    embed.description =
      IF "summary" \in DOMAIN InAnnotations /\ InAnnotations.summary # ""
        THEN InAnnotations.summary
        ELSE GeneratedDescription

\* C8 amended: the description is annotations.summary whenever that key is
\* present, the empty string included, and the generated text only when
\* the key is absent.
C8_SummaryWhenPresent ==
  Translated =>
    embed.description =
      IF "summary" \in DOMAIN InAnnotations
        THEN InAnnotations.summary
        ELSE GeneratedDescription

\* an alert with an empty summary has been translated
C8_Witness ==
  /\ Translated
  /\ "summary" \in DOMAIN InAnnotations
  /\ InAnnotations.summary = ""
  /\ embed.description = ""

(* ----------------------- claims on the server ------------------------- *)

Request(c)  == conn[c].request
Handled(c)  == conn[c].phase \in {"handling", "answered", "closed"}
Waiting(c)  == conn[c].phase = "handling"
IsPost(c)   == Request(c).method = "POST"
OkResponse  == Respond(200, [status |-> "ok"])

\* the body is JSON and is read in full
BodyParsed(c) ==
  /\ IsPost(c)
  /\ Request(c).content_length = "exact"
  /\ Request(c).body.json \notin {"invalid", "none"}

\* the request carries a list of alert objects (no "alerts" key: the empty list)
CarriesAlerts(c) ==
  /\ BodyParsed(c)
  /\ Request(c).body.json = "object"
  /\ "alerts" \in DOMAIN Request(c).body.obj =>
       /\ Request(c).body.obj.alerts.type = "array"
       /\ \A i \in 1..Len(Request(c).body.obj.alerts.items) :
            Request(c).body.obj.alerts.items[i].type = "object"

AlertsIn(c) ==
  IF "alerts" \in DOMAIN Request(c).body.obj
    THEN Request(c).body.obj.alerts.items ELSE <<>>

HasStatus(a, status) == "status" \in DOMAIN a.obj /\ a.obj.status = status
WithStatus(alerts, status) == SelectSeq(alerts, LAMBDA a: HasStatus(a, status))
Counted(alerts) ==
  SelectSeq(alerts, LAMBDA a: HasStatus(a, "firing") \/ HasStatus(a, "resolved"))
Uncounted(alerts) ==
  SelectSeq(alerts, LAMBDA a: ~HasStatus(a, "firing") /\ ~HasStatus(a, "resolved"))

Cards(alerts, utcnow) ==
  [i \in 1..Len(alerts) |-> format_alert_for_discord(alerts[i].obj, utcnow)]

TakenFiring(c)   == Min(EMBED_LIMIT, Len(WithStatus(AlertsIn(c), "firing")))
TakenResolved(c) ==
  Min(Len(WithStatus(AlertsIn(c), "resolved")), EMBED_LIMIT - TakenFiring(c))

\* C1: the cards of an outbound payload are the translations of the first
\* min(10, F) firing alerts in input order followed by those of the first
\* min(R, 10 - min(10, F)) resolved alerts in input order; so there are never
\* more than 10 cards and no resolved card precedes a firing card.
C1_CardsOfBatch ==
  \A c \in Clients :
    Waiting(c) =>
      /\ CarriesAlerts(c)
      /\ \E utcnow \in UtcNow :
           outbound[c].embeds =
             Cards(SubSeq(WithStatus(AlertsIn(c), "firing"), 1, TakenFiring(c)), utcnow)
             \o Cards(SubSeq(WithStatus(AlertsIn(c), "resolved"), 1, TakenResolved(c)),
                      utcnow)
      /\ Len(outbound[c].embeds) <= EMBED_LIMIT

\* a payload is in flight for a request with more firing and resolved
\* alerts than fit, resolved ones among them
C1_Witness ==
  \E c \in Clients :
    /\ Waiting(c)
    /\ Len(WithStatus(AlertsIn(c), "resolved")) > TakenResolved(c)
    /\ Len(outbound[c].embeds) = EMBED_LIMIT

\* the request yields no card: every alert is an object and none is firing
\* or resolved
NoCards(c) == CarriesAlerts(c) /\ Counted(AlertsIn(c)) = <<>>

\* C2: when the card sequence is empty (no alerts at all in particular),
\* send_to_discord returns True and requests.post is never called.
C2_EmptyBatchIsNoOp ==
  \A c \in Clients :
    NoCards(c) /\ Handled(c) =>
      /\ conn[c].phase = "answered"
      /\ conn[c].success = "True"
      /\ posts[c] = 0
      /\ outbound[c] = <<>>

\* a request with an empty alert list has been handled
C2_Witness ==
  \E c \in Clients :
    /\ CarriesAlerts(c)
    /\ "alerts" \in DOMAIN Request(c).body.obj
    /\ AlertsIn(c) = <<>>
    /\ conn[c].phase = "answered"
    /\ conn[c].success = "True"

\* C3: every POST ends in a response: 200 {"status":"ok"} exactly when the
\* body parsed and send_to_discord returned True, and otherwise 500 with a
\* JSON body whose status is "error"; no POST ends without a response.
C3_EveryPostAnswered ==
  \A c \in Clients :
    IsPost(c) /\ conn[c].phase \in {"answered", "closed"} =>
      IF BodyParsed(c) /\ conn[c].success = "True"
        THEN conn[c].response = OkResponse
        ELSE /\ conn[c].response.code = 500
             /\ Get(conn[c].response.body, "status", "") = "error"

Is2xx(outcome) ==
  /\ outcome.kind = "response"
  /\ 200 <= outcome.status_code
  /\ outcome.status_code < 300

\* C5: at most one requests.post per request; after a transport error, a
\* timeout or a non-2xx response send_to_discord returns False, and it
\* returns True only if the single POST ended in a success status.
C5_SinglePostNoRetry ==
  \A c \in Clients :
    /\ posts[c] <= 1
    /\ conn[c].phase = "answered" /\ posts[c] = 1 =>
         (conn[c].success = "True" <=> Is2xx(conn[c].post_outcome))
    /\ conn[c].phase = "answered" /\ posts[c] = 1 /\ conn[c].success = "False" =>
         conn[c].response.code = 500

FiringPart(n) ==
  ":fire: " \o ToString(n) \o (IF n = 1 THEN " alert firing" ELSE " alerts firing")
ResolvedPart(n) == ":white_check_mark: " \o ToString(n) \o " resolved"

\* the summary line for n firing and m resolved alerts, "" if there is none
SummaryLine(n, m) ==
  IF n > 0 /\ m > 0 THEN FiringPart(n) \o " | " \o ResolvedPart(m)
  ELSE IF n > 0 THEN FiringPart(n)
  ELSE IF m > 0 THEN ResolvedPart(m)
  ELSE ""

\* C9 as stated: the summary line of a payload counts the firing and the
\* resolved alerts taken into the payload's cards, so the counts shown never
\* exceed the number of cards.
C9_SummaryCountsCards ==
  \A c \in Clients :
    Waiting(c) =>
      Get(outbound[c], "content", "") = SummaryLine(TakenFiring(c), TakenResolved(c))

\* C9 amended: the summary line counts all firing and all resolved alerts of
\* the request, also those beyond the 10 cards: a firing part iff there is a
\* firing alert, a resolved part iff there is a resolved one, firing first,
\* joined by " | ".
C9_SummaryCountsAlerts ==
  \A c \in Clients :
    Waiting(c) =>
      Get(outbound[c], "content", "") =
        SummaryLine(Len(WithStatus(AlertsIn(c), "firing")),
                    Len(WithStatus(AlertsIn(c), "resolved")))

\* a payload is in flight for a request with more than 10 firing alerts
C9_Witness ==
  \E c \in Clients :
    /\ Waiting(c)
    /\ Len(WithStatus(AlertsIn(c), "firing")) > EMBED_LIMIT
    /\ "content" \in DOMAIN outbound[c]

\* C10: an alert whose status is absent or neither "firing" nor "resolved"
\* yields no card and is not counted in the summary line: the payload is the
\* one the request would give without these alerts, and no card carries
\* their timestamp; a POST with only such alerts is answered 200
\* {"status":"ok"} and requests.post is not called.
C10_OtherStatusIgnored ==
  \A c \in Clients :
    /\ Waiting(c) =>
         /\ \E utcnow \in UtcNow :
              outbound[c] =
                send_to_discord(DISCORD_WEBHOOK_URL, Counted(AlertsIn(c)), utcnow).payload
         /\ \A i \in 1..Len(outbound[c].embeds) :
              \A j \in 1..Len(Uncounted(AlertsIn(c))) :
                outbound[c].embeds[i].timestamp # Uncounted(AlertsIn(c))[j].obj.startsAt
    /\ NoCards(c) /\ AlertsIn(c) # <<>> /\ Handled(c) =>
         /\ conn[c].phase = "answered"
         /\ conn[c].response = OkResponse
         /\ posts[c] = 0

\* a POST whose alerts all lack a status has been answered 200
C10_Witness ==
  \E c \in Clients :
    /\ NoCards(c)
    /\ AlertsIn(c) # <<>>
    /\ \A i \in 1..Len(AlertsIn(c)) : "status" \notin DOMAIN AlertsIn(c)[i].obj
    /\ conn[c].phase = "answered"
    /\ conn[c].response = OkResponse

\* C4 as stated: while one request waits on its outbound POST, another
\* request that has arrived can be taken up by the server.
C4_OthersServedMeanwhile ==
  \A c, d \in Clients :
    c # d /\ Waiting(c) /\ conn[d].phase = "queued" =>
      ENABLED (do_POST(d) \/ do_GET(d))

\* C4 amended: the server handles one request at a time: while one request
\* waits on its outbound POST, a request that has arrived is neither
\* processed nor answered; it stays queued until the first one is answered.
C4_OneRequestAtATime ==
  [][\A c, d \in Clients :
       c # d /\ Waiting(c) /\ conn[d].phase = "queued" =>
         conn'[d].phase = "queued"]_vars

\* one request waits on its outbound POST while another has arrived
C4_Witness ==
  \E c, d \in Clients :
    /\ c # d
    /\ Waiting(c)
    /\ conn[d].phase = "queued"
    /\ conn[d].request.method = "POST"

====
